---- MODULE Spec2Model ----
(***************************************************************************)
(* Model of nova_lite_processor.py: the bounded-duration batch loop        *)
(* (lines 181-190), process_all_images (169-179) with its thread pool, and *)
(* process_image (91-167) run by the pool's workers.                       *)
(*                                                                         *)
(* Time is counted in whole seconds (the granularity of int(time.time())   *)
(* at line 138).  The statements between two batches (lines 183, 185, 186, *)
(* 188) take less than one second, so the clock advances only while a      *)
(* batch is inside process_all_images.                                     *)
(*                                                                         *)
(* Spec is the run with the list file open to changes between batches;     *)
(* FairSpec adds the scheduling of its threads.  SpecFixedList is the run  *)
(* on a list file nobody changes, with the calls of process_image counted; *)
(* SpecFiles is that run with the files of the output directory followed.  *)
(***************************************************************************)
EXTENDS Integers, Sequences, FiniteSets, TLC

(* ------------------------------ bounds --------------------------------- *)
\* Lines of the list file, the longest --duration, and the longest time (in
\* seconds) one batch takes to drain.
MaxLines == 2
MaxDuration == 2
MaxBatchTime == 2

\* The default of --threads (line 21); worker counts up to it are checked.
DefaultThreads == 2
MaxBatches == MaxDuration

(* ------------------------------ inputs --------------------------------- *)
\* An image path is <<directory, base name>>: two images of one base name.
Paths == {<<"a", "x">>, <<"b", "x">>}

NL == "\n"
\* A line of the list file: a path followed by its newline, or a blank line.
Lines == {<<p, NL>> : p \in Paths} \cup {<<NL>>}

SeqsUpTo(S, n) == UNION {[1..k -> S] : k \in 0..n}

\* What open(args.image_list) can find: a text file, or no readable file.
Unreadable == [ok |-> FALSE, lines |-> <<>>]
ListFiles == {[ok |-> TRUE, lines |-> s] : s \in SeqsUpTo(Lines, MaxLines)} \cup {Unreadable}

(* --------------------------- pure functions ---------------------------- *)
IsSpace(c) == c = NL

RECURSIVE LStrip(_)
LStrip(l) == IF l # <<>> /\ IsSpace(Head(l)) THEN LStrip(Tail(l)) ELSE l

RECURSIVE RStrip(_)
RStrip(l) ==
  IF l # <<>> /\ IsSpace(l[Len(l)]) THEN RStrip(SubSeq(l, 1, Len(l) - 1)) ELSE l

\* str.strip() of one line
Strip(l) == RStrip(LStrip(l))

\* (variant) [line.strip() for line in f]: the blank lines are kept
ReadListUnfiltered(f) == [k \in 1..Len(f) |-> Head(f[k])]

RECURSIVE ReadList(_)
\* [line.strip() for line in f if line.strip()]
ReadList(f) ==
  IF f = <<>> THEN <<>>
  ELSE IF Strip(Head(f)) # <<>>
       THEN <<Head(Strip(Head(f)))>> \o ReadList(Tail(f))
       ELSE ReadList(Tail(f))

\* os.path.basename(image_path)
Basename(p) == p[2]

\* os.path.join(output_dir, f"{basename}_{timestamp}.txt")
OutputFile(p, ts) == <<Basename(p), ts, ".txt">>

\* f"{output_file}_response.json"
ResponseFile(p, ts) == <<Basename(p), ts, ".txt_response.json">>

(* ------------------------------- state --------------------------------- *)
VARIABLES
  duration,     \* args.duration
  threads,      \* args.threads
  now,          \* time.time(), in seconds since the script started
  end_time,     \* line 183
  phase,        \* where the main thread is
  listFile,     \* the file named by args.image_list
  image_paths,  \* line 173, of the batch in progress
  tasks,        \* the pool's work items of the batch in progress, in submit order
  logTail,      \* the end of args.log_file: what follows its last newline
  batches,      \* calls of process_all_images so far
  checks,       \* evaluations of the while condition so far
  reads,        \* times the list file was read
  batchStart,   \* the clock at the deadline check that admitted the batch
  durs,         \* the drain times of the completed batches
  edited,       \* whether the list file was changed during the run
  attempts,     \* calls of process_image so far, by position in the list
  files,        \* the artifacts in args.output_dir
  fresh         \* of them, those written by the batch in progress

vars == <<duration, threads, now, end_time, phase, listFile, image_paths, tasks,
          logTail, batches, checks, reads, batchStart, durs, edited, attempts,
          files, fresh>>

config == <<duration, threads, end_time>>
history == <<batches, checks, reads, batchStart, durs, edited>>

\* What is observed of a run beside its own state: the calls made and the
\* output directory.  Take, WriteResponse, WriteText and Join, the steps that
\* add to it, say nothing of it themselves: Spec leaves it aside, while
\* SpecFixedList follows the calls and SpecFiles the output directory too.
observed == <<attempts, files, fresh>>

Finished == {"Success", "Failure", "Raised"}
InFlight == {"logstart", "prepare", "wresp", "wtext", "errlog"}

\* A call of process_image: its argument, where it is, its timestamp (line 138),
\* the part of a log line it has yet to write, and whether one of its own
\* steps has met an error.
NewTask(p) ==
  [image_path |-> p, st |-> "queued", timestamp |-> 0, pend |-> <<>>, err |-> FALSE]

\* An exception inside the try block: on to the handler at line 162, which
\* uses image_path and the exception only.
Except(t) == [t EXCEPT !.st = "errlog", !.timestamp = 0]

\* The call returns (or raises): its locals go.
Return(t, result) == [t EXCEPT !.st = result, !.timestamp = 0, !.pend = <<>>]

\* (variant) a call that failed goes back to the queue
Retried(t) == [t EXCEPT !.st = "queued", !.timestamp = 0, !.pend = <<>>]

\* Line 167: return False, and nothing more is done about the item.
Failed(t) == Return(t, "Failure")

Running == {i \in 1..Len(tasks) : tasks[i].st \in InFlight}
Queued == {i \in 1..Len(tasks) : tasks[i].st = "queued"}
AllFinished == \A i \in 1..Len(tasks) : tasks[i].st \in Finished

(* ------------------------------ the log -------------------------------- *)
\* One line of the log, as the text and its newline.
LogLine(who, kind) == <<<<who, kind, "text">>, <<who, kind, NL>>>>

\* (variant) an unbuffered log: the text and its newline go out in two writes
FlushUnbuffered(buf) == <<SubSeq(buf, 1, 1), SubSeq(buf, 2, Len(buf))>>

\* The write() calls by which closing the log file object flushes its buffer.
\* The file is opened with the default buffering, and a line is shorter than
\* the buffer: the whole line goes out in one write.
FlushWrites(buf) == <<buf>>

\* One write() on a file opened in append mode adds its bytes at the end.
RECURSIVE AfterLastNewline(_)
AfterLastNewline(s) ==
  IF s = <<>> \/ s[Len(s)][3] = NL THEN <<>>
  ELSE AfterLastNewline(SubSeq(s, 1, Len(s) - 1)) \o <<s[Len(s)]>>

AppendLog(tail, chunk) == AfterLastNewline(tail \o chunk)

\* (variant) the run lasts one second at least
EndTimeAtLeastOne(t, d) == t + (IF d < 1 THEN 1 ELSE d)

\* Line 183
EndTime(t, d) == t + d

Init ==
  /\ duration \in -1..MaxDuration
  /\ threads \in 0..DefaultThreads
  /\ now = 0
  /\ end_time = EndTime(now, duration)
  /\ phase = "check"
  /\ listFile \in ListFiles
  /\ image_paths = <<>>
  /\ tasks = <<>>
  /\ logTail = AppendLog(<<>>, LogLine(0, "header"))
  /\ batches = 0
  /\ checks = 0
  /\ reads = 0
  /\ batchStart = 0
  /\ durs = {}
  /\ edited = FALSE
  /\ attempts = [i \in 1..MaxLines |-> 0]
  /\ files = {}
  /\ fresh = {}

(* --------------------------- the main thread --------------------------- *)
\* (variant) a batch may start at the deadline itself
BeforeOrAtDeadline(t, e) == t <= e

\* (variant) no batch starts in the last second before the deadline
WellBeforeDeadline(t, e) == t + 1 < e

\* while time.time() < end_time
BeforeDeadline(t, e) == t < e

DeadlineCheck ==
  /\ phase = "check"
  /\ IF BeforeDeadline(now, end_time)
     THEN /\ batches < MaxBatches
          /\ phase' = "loading"
          /\ batches' = batches + 1
          /\ batchStart' = now
     ELSE /\ phase' = "done"
          /\ UNCHANGED <<batches, batchStart>>
  /\ checks' = checks + 1
  /\ UNCHANGED <<config, now, listFile, image_paths, tasks, logTail, reads,
               durs, observed, edited>>

\* Lines 172-178: read the list, then create the pool.
Load ==
  /\ phase = "loading"
  /\ IF ~listFile.ok
     THEN /\ phase' = "crashed"
          /\ UNCHANGED <<image_paths, reads>>
     ELSE /\ image_paths' = ReadList(listFile.lines)
          /\ reads' = reads + 1
          /\ phase' = IF threads <= 0 THEN "crashed" ELSE "pool"
  /\ tasks' = <<>>
  /\ UNCHANGED <<config, now, listFile, logTail, batches, checks, batchStart,
               durs, observed, edited>>

\* executor.map submits the items in list order.
Submit ==
  /\ phase = "pool"
  /\ Len(tasks) < Len(image_paths)
  /\ tasks' = Append(tasks, NewTask(image_paths[Len(tasks) + 1]))
  /\ UNCHANGED <<config, now, phase, listFile, image_paths, logTail, history,
               observed>>

\* (variant) the pool is left only when at least one call has ended
JoinedSome == Len(tasks) >= 1 /\ Len(tasks) = Len(image_paths) /\ AllFinished

\* (variant) shutdown(wait=False): the with block is left once map has
\* submitted the items
JoinedNoWait == Len(tasks) = Len(image_paths)

\* Leaving the with block: shutdown(wait=True) returns once the workers have
\* run every submitted item.  process_all_images returns and its locals go.
Joined == Len(tasks) = Len(image_paths) /\ AllFinished

Join ==
  /\ phase = "pool"
  /\ Joined
  /\ phase' = "check"
  /\ durs' = durs \cup {now - batchStart}
  /\ image_paths' = <<>>
  /\ tasks' = <<>>
  /\ batchStart' = 0
  /\ UNCHANGED <<config, now, listFile, logTail, batches, checks, reads,
               edited>>

\* The list file is changed from outside between two batches.
EditList ==
  /\ phase = "check"
  /\ batches >= 1
  /\ \E f \in ListFiles :
       /\ f # listFile
       /\ listFile' = f
  /\ edited' = TRUE
  /\ UNCHANGED <<config, now, phase, image_paths, tasks, logTail, batches,
               checks, reads, batchStart, durs, observed>>

Tick ==
  /\ phase \in {"loading", "pool"}
  /\ now - batchStart < MaxBatchTime
  /\ now' = now + 1
  /\ UNCHANGED <<config, phase, listFile, image_paths, tasks, logTail,
               history, observed>>

(* ----------------------------- the workers ----------------------------- *)
SetTask(i, t) == tasks' = [tasks EXCEPT ![i] = t]

\* (variant) one of the worker threads never takes an item
WorkerHeldBack == Cardinality(Running) + 1 < threads

\* (variant) one thread per item, whatever max_workers says
WorkerAlways == TRUE

\* A worker thread is free to take the next item of the queue.
WorkerFree == Cardinality(Running) < threads

\* (variant) a worker takes any item of the queue
AnyQueued(i) == i \in Queued

\* The pool's work queue is first in, first out.
FirstQueued(i) == i \in Queued /\ \A j \in Queued : i <= j

Take(i) ==
  /\ phase = "pool"
  /\ FirstQueued(i)
  /\ WorkerFree
  /\ SetTask(i, [tasks[i] EXCEPT !.st = "logstart"])
  /\ UNCHANGED <<config, now, phase, listFile, image_paths, logTail, history>>

\* (variant) the error state is shared by the calls: an error of one call
\* fails the steps of the others
RaisesShared(i, failed) ==
  failed \/ \E j \in 1..Len(tasks) : j # i /\ tasks[j].err

\* Whether a step of call i leaves the try block by an exception: it does
\* when the step itself fails.
Raises(i, failed) == failed

\* One step of call i that can fail: on to the handler, or on as `ok`.
Step(i, failed, ok, bad) ==
  SetTask(i, IF Raises(i, failed) THEN Except([bad EXCEPT !.err = @ \/ failed])
             ELSE [ok EXCEPT !.err = @ \/ failed])

\* One step of writing a log line: one write() of the flush at close.
\* Gives <<the log's end, the task>> after the step.
LogStep(i, kind, after) ==
  LET t == tasks[i]
      todo == IF t.pend # <<>> THEN t.pend ELSE FlushWrites(LogLine(i, kind))
      rest == Tail(todo)
  IN  <<AppendLog(logTail, Head(todo)),
        IF rest = <<>> THEN after ELSE [t EXCEPT !.pend = rest]>>

\* Lines 95-97: the start line is written, or the log cannot be opened.
LogStart(i) ==
  /\ i \in 1..Len(tasks)
  /\ tasks[i].st = "logstart"
  /\ \E failed \in BOOLEAN :
       LET r == LogStep(i, "start", [tasks[i] EXCEPT !.st = "prepare", !.pend = <<>>])
       IN  /\ failed => tasks[i].pend = <<>>
           /\ logTail' = IF Raises(i, failed) THEN logTail ELSE r[1]
           /\ Step(i, failed, r[2], tasks[i])
  /\ UNCHANGED <<config, now, phase, listFile, image_paths, history, observed>>

\* Lines 100-148: read the image, build the request, take the timestamp and
\* name the two artifacts, call the model and parse its answer.
Prepare(i) ==
  /\ i \in 1..Len(tasks)
  /\ tasks[i].st = "prepare"
  /\ \E failed \in BOOLEAN :
       Step(i, failed, [tasks[i] EXCEPT !.st = "wresp", !.timestamp = now], tasks[i])
  /\ UNCHANGED <<config, now, phase, listFile, image_paths, logTail, history,
               observed>>

\* Lines 151-152: the response is written to ResponseFile(image_path, timestamp).
WriteResponse(i) ==
  /\ i \in 1..Len(tasks)
  /\ tasks[i].st = "wresp"
  /\ \E failed \in BOOLEAN :
       Step(i, failed, [tasks[i] EXCEPT !.st = "wtext"], tasks[i])
  /\ UNCHANGED <<config, now, phase, listFile, image_paths, logTail, history>>

\* Lines 155-160: the text is taken out of the response (which fails on a
\* response of another shape) and written to OutputFile(image_path, timestamp).
WriteText(i) ==
  /\ i \in 1..Len(tasks)
  /\ tasks[i].st = "wtext"
  /\ \E failed \in BOOLEAN :
       Step(i, failed, Return(tasks[i], "Success"), tasks[i])
  /\ UNCHANGED <<config, now, phase, listFile, image_paths, logTail, history>>

\* Lines 162-167: the handler writes the error line and returns False.  The
\* log write can fail here too, and nothing catches that.
ErrLog(i) ==
  /\ i \in 1..Len(tasks)
  /\ tasks[i].st = "errlog"
  /\ \E failed \in BOOLEAN :
       LET r == LogStep(i, "error", Failed(tasks[i]))
       IN  /\ failed => tasks[i].pend = <<>>
           /\ logTail' = IF failed THEN logTail ELSE r[1]
           /\ SetTask(i, IF failed THEN Return(tasks[i], "Raised") ELSE r[2])
  /\ UNCHANGED <<config, now, phase, listFile, image_paths, history, observed>>

process_image(i) ==
  \/ Take(i) /\ UNCHANGED observed
  \/ LogStart(i)
  \/ Prepare(i)
  \/ WriteResponse(i) /\ UNCHANGED observed
  \/ WriteText(i) /\ UNCHANGED observed
  \/ ErrLog(i)

process_all_images ==
  \/ Load
  \/ Submit
  \/ Join /\ UNCHANGED observed

Next ==
  \/ DeadlineCheck
  \/ process_all_images
  \/ EditList
  \/ Tick
  \/ \E i \in 1..MaxLines : process_image(i)

Spec == Init /\ [][Next]_vars

\* The main thread and the worker threads are scheduled: a step of the main
\* thread, or of a call, that stays possible is taken in the end.  A step of
\* a call stands for an operation that returns.  Nobody has to change the
\* list file, and the clock is not made to advance.
FairSpec ==
  /\ Spec
  /\ WF_vars(DeadlineCheck)
  /\ WF_vars(process_all_images)
  /\ \A i \in 1..MaxLines : WF_vars(process_image(i))

(* ------------------- the calls and the output directory ---------------- *)
\* Take(i) begins a call of process_image on the item at position i.
Counted(i) == attempts' = [attempts EXCEPT ![i] = @ + 1]

Call(i) == Take(i) /\ Counted(i) /\ UNCHANGED <<files, fresh>>

\* The run on a list file that nobody changes, its calls counted.
NextFixedList ==
  \/ DeadlineCheck
  \/ Load
  \/ Submit
  \/ Join /\ UNCHANGED observed
  \/ Tick
  \/ \E i \in 1..MaxLines :
       \/ Call(i)
       \/ LogStart(i)
       \/ Prepare(i)
       \/ WriteResponse(i) /\ UNCHANGED observed
       \/ WriteText(i) /\ UNCHANGED observed
       \/ ErrLog(i)

SpecFixedList == Init /\ [][NextFixedList]_vars

\* open(path, 'w') puts the file there, and the write fills it.
WriteFile(path, made) ==
  /\ files' = IF made THEN files \cup {path} ELSE files
  /\ fresh' = IF made THEN fresh \cup {path} ELSE fresh

\* What a step of call i that writes `path` leaves in the output directory:
\* the file when the step went through; when it ended in the handler, the
\* file if the open had succeeded by then, and nothing otherwise.
Written(i, path) ==
  \E made \in BOOLEAN :
     /\ tasks'[i].st # "errlog" => made
     /\ WriteFile(path, made)

\* (variant) the raw response is not saved
WriteResponseSkipped(i) == WriteResponse(i) /\ UNCHANGED observed

\* Lines 151-152 with the file they write.
WriteResponseFile(i) ==
  /\ WriteResponse(i)
  /\ Written(i, ResponseFile(tasks[i].image_path, tasks[i].timestamp))
  /\ UNCHANGED attempts

\* Lines 155-160 with the file they write.
WriteTextFile(i) ==
  /\ WriteText(i)
  /\ Written(i, OutputFile(tasks[i].image_path, tasks[i].timestamp))
  /\ UNCHANGED attempts

\* The batch is over: what it wrote is now a prior batch's.
JoinFiles == Join /\ fresh' = {} /\ UNCHANGED <<attempts, files>>

\* The run on a list file that nobody changes, its calls counted and its
\* output directory followed.
NextFiles ==
  \/ DeadlineCheck
  \/ Load
  \/ Submit
  \/ JoinFiles
  \/ Tick
  \/ \E i \in 1..MaxLines :
       \/ Call(i)
       \/ LogStart(i)
       \/ Prepare(i)
       \/ WriteResponseFile(i)
       \/ WriteTextFile(i)
       \/ ErrLog(i)

SpecFiles == Init /\ [][NextFiles]_vars

(* ------------------------------ the claims ----------------------------- *)
BatchDrained == phase = "pool" /\ Joined
Handler == {"errlog", "Failure", "Raised"}

\* C1: failure isolation.  A call none of whose own steps failed never enters
\* the error handler, whatever its siblings do, and when the batch has drained
\* every such call has returned Success.
C1_FailureIsolation ==
  \A i \in 1..Len(tasks) :
     ~tasks[i].err =>
        /\ tasks[i].st \notin Handler
        /\ BatchDrained => tasks[i].st = "Success"

\* A drained batch in which one item failed and another succeeded.
C1_Witness ==
  /\ BatchDrained
  /\ \E i, j \in 1..Len(tasks) :
       tasks[i].st \in {"Failure", "Raised"} /\ tasks[j].st = "Success"

\* C2: a drained batch on a list of K items holds exactly K outcomes
\* (Success or Failure), the i-th being that of the i-th listed item.
C2_ExactlyKOutcomes ==
  BatchDrained =>
     /\ Len(tasks) = Len(image_paths)
     /\ \A i \in 1..Len(image_paths) :
          /\ tasks[i].image_path = image_paths[i]
          /\ tasks[i].st \in {"Success", "Failure"}

\* C3: full join.  The main thread leaves the pool only for the deadline
\* check, and only when every listed item has been dispatched and has
\* finished; nothing is pending or in flight once it has left.
C3_FullJoin ==
  [][(phase = "pool" /\ phase' # "pool") =>
        /\ phase' = "check"
        /\ Len(tasks) = Len(image_paths)
        /\ \A i \in 1..Len(tasks) : tasks[i].st \in Finished
        /\ \A i \in 1..Len(tasks') : tasks'[i].st \in Finished]_vars

\* A batch that took two seconds to drain has been joined.
C3_Witness == phase = "check" /\ batches >= 1 /\ 2 \in durs

\* C4: no call of process_image ends by raising.
C4_NeverThrows == \A i \in 1..Len(tasks) : tasks[i].st # "Raised"

\* C5: deadline gating.  A batch starts only from a deadline check made
\* strictly before the deadline; a check at or after the deadline leads to
\* done; done is final and nothing is loaded or dispatched after it.
C5_DeadlineGating ==
  [][/\ (phase' = "loading" /\ phase # "loading") =>
          (phase = "check" /\ now < end_time)
     /\ (phase = "check" /\ now >= end_time /\ phase' # "check") => phase' = "done"
     /\ phase = "done" =>
          (phase' = "done" /\ UNCHANGED <<tasks, image_paths, reads, batches>>)]_vars

\* The run is over, after at least one batch, the last of which overshot the
\* deadline.
C5_Witness == phase = "done" /\ batches >= 1 /\ now > end_time

\* C6: with a duration <= 0 the only step is one deadline check, which ends
\* the run: no batch, no read of the list, no item.
C6_NonPositiveDuration ==
  duration <= 0 =>
     /\ phase \in {"check", "done"}
     /\ checks = (IF phase = "done" THEN 1 ELSE 0)
     /\ batches = 0
     /\ reads = 0
     /\ image_paths = <<>>
     /\ tasks = <<>>

C6_Witness == duration <= 0 /\ phase = "done" /\ checks = 1

C8_ConcurrencyBound == threads >= 1 => Cardinality(Running) <= threads

\* The bound binds: one worker, one call in progress, an item waiting.
C8_Witness == threads = 1 /\ Cardinality(Running) = 1 /\ Queued # {}

Target(t) ==
  IF t.st = "wresp" THEN ResponseFile(t.image_path, t.timestamp) ELSE OutputFile(t.image_path, t.timestamp)

\* C10: no two calls of a batch are about to write the same output path at
\* the same time.
C10_DisjointWrites ==
  \A i, j \in 1..Len(tasks) :
     (i # j /\ tasks[i].st \in {"wresp", "wtext"} /\ tasks[j].st \in {"wresp", "wtext"})
        => Target(tasks[i]) # Target(tasks[j])

\* C11 (under SpecFiles, where the list is never changed): no step writes a
\* path that holds an artifact of an earlier batch.
C11_NoOverwrite == [][(fresh' \ fresh) \cap (files \ fresh) = {}]_vars

\* The items of a list file: its lines that hold more than a newline, in
\* order, each without its newline.
NonBlank(l) == \E k \in 1..Len(l) : l[k] # NL
Items(lines) ==
  LET nb == SelectSeq(lines, NonBlank)
  IN  [k \in 1..Len(nb) |-> Head(SelectSeq(nb[k], LAMBDA c : c # NL))]

\* C12: the items of a batch are those of the list file as it is when the
\* batch loads it, whatever it was before: while the pool runs, image_paths
\* holds the non-blank lines of the present list file, and the calls
\* dispatched are those items, in order.
C12_FreshList ==
  phase = "pool" =>
     /\ image_paths = Items(listFile.lines)
     /\ Len(tasks) <= Len(image_paths)
     /\ \A i \in 1..Len(tasks) : tasks[i].image_path = image_paths[i]

\* The second batch has drained after the list file was changed, with two
\* items dispatched.
C12_Witness ==
  /\ BatchDrained
  /\ edited
  /\ batches = 2
  /\ Len(tasks) = 2
  /\ tasks[1].image_path # tasks[2].image_path

\* A configuration the spec calls an error: no readable list file, or a
\* worker count below one.
BadConfig == ~listFile.ok \/ threads < 1

\* C13: a run whose configuration is bad never ends at line 190 as if all
\* were well, whatever its duration; and the error state is entered with no
\* batch completed and no item dispatched.
C13_FatalAtStartup ==
  /\ (phase = "done" /\ ~edited) => ~BadConfig
  /\ phase = "crashed" => (durs = {} /\ tasks = <<>>)

\* C14: the calls are set up in list order and begin in list order; with one
\* worker a call begins only when every call before it has ended; and what a
\* call of a drained batch returned follows from its own steps alone (True
\* exactly when none of them failed), so it is the same for every worker
\* count.
C14_OrderAndSequential ==
  /\ \A i \in 1..Len(tasks) : tasks[i].image_path = image_paths[i]
  /\ \A i, j \in 1..Len(tasks) :
        (i < j /\ tasks[j].st # "queued") =>
           /\ tasks[i].st # "queued"
           /\ threads = 1 => tasks[i].st \in Finished
  /\ BatchDrained =>
        \A i \in 1..Len(tasks) : (tasks[i].st = "Success") <=> ~tasks[i].err

\* One worker: the first call has ended and the second is in progress.
C14_Witness ==
  /\ threads = 1
  /\ Len(tasks) = 2
  /\ tasks[1].st \in Finished
  /\ tasks[2].st \in InFlight

\* C15 (under SpecFixedList, where the list is never changed): no item is
\* called more than once in a batch, whatever the call's outcome: while the
\* pool runs the item at position i has been called once in every earlier
\* batch and once more in this one when its call has begun; between batches
\* and at the end every listed item has been called once per batch, and
\* no other position ever.
C15_NoRetry ==
  LET K == Len(Items(listFile.lines))
      begun(i) == i <= Len(tasks) /\ tasks[i].st # "queued"
  IN  \A i \in 1..MaxLines :
         /\ attempts[i] <= batches
         /\ i > K => attempts[i] = 0
         /\ (i <= K /\ phase = "pool") =>
               attempts[i] = (IF begun(i) THEN batches ELSE batches - 1)
         /\ (i <= K /\ phase \in {"check", "done"}) => attempts[i] = batches

\* The second batch has drained: the item failed again and has been called
\* twice in all.
C15_Witness ==
  /\ BatchDrained
  /\ batches = 2
  /\ Len(tasks) >= 1
  /\ tasks[1].st = "Failure"
  /\ attempts[1] = 2

\* The bound on the number of batches has stopped the run before its
\* deadline (the batches so far each took less than a second).
Capped == phase = "check" /\ batches = MaxBatches /\ BeforeDeadline(now, end_time)

\* C16 (under FairSpec): the run comes to its end, at line 190 or, for a list
\* file or a worker count that cannot be used, in the error state, unless the
\* bound on batches stops it first; and a batch whose pool is running always
\* comes to the point where every listed item has been dispatched and every
\* call has ended, the deadline having passed or not.
C16_Termination ==
  /\ <>(phase \in {"done", "crashed"} \/ Capped)
  /\ (phase = "pool") ~> BatchDrained

\* The deadline has passed while the batch was running, and its two calls
\* have ended all the same.
C16_Witness ==
  /\ BatchDrained
  /\ now > end_time
  /\ Len(tasks) = 2
  /\ \A i \in 1..Len(tasks) : tasks[i].st = "Success"

\* A list file that can be read and holds no item, and a pool that can be
\* created.
EmptyList == listFile.ok /\ Items(listFile.lines) = <<>> /\ threads >= 1

\* C17: a batch on a list without items dispatches nothing and is complete
\* as soon as its pool exists; and on such a list the run is never in the
\* error state and, until it is done, its main thread always has a next step
\* (the deadline check, the load or the join), the bound on batches apart.
C17_EmptyListNoOp ==
  /\ (phase = "pool" /\ image_paths = <<>>) => (tasks = <<>> /\ Joined)
  /\ EmptyList =>
        /\ phase # "crashed"
        /\ phase = "pool" => image_paths = <<>>
        /\ (phase # "done" /\ ~Capped) => ENABLED (DeadlineCheck \/ process_all_images)

\* The run is done after two batches on a list that was empty throughout.
C17_Witness ==
  /\ phase = "done"
  /\ batches = 2
  /\ ~edited
  /\ EmptyList
  /\ now >= end_time
  /\ duration >= 1

\* The two artifacts a call with this timestamp names.
Artifacts(t) ==
  {ResponseFile(t.image_path, t.timestamp), OutputFile(t.image_path, t.timestamp)}

\* C18 (under SpecFiles): the output directory never holds an extracted
\* text without the raw response of the same name; a call returns Success
\* only with both of its artifacts in the directory; and no artifact is
\* ever removed.
C18_ArtifactsConsistent ==
  /\ [](\A p \in files :
          p[3] = ".txt" => <<p[1], p[2], ".txt_response.json">> \in files)
  /\ [][/\ files \subseteq files'
        /\ \A i \in 1..Len(tasks) :
             (i <= Len(tasks') /\ tasks[i].st # "Success" /\ tasks'[i].st = "Success")
                => Artifacts(tasks[i]) \subseteq files']_vars

\* A drained batch of two calls: one returned Success, the other failed
\* after writing its raw response and left no text.
C18_Witness ==
  /\ BatchDrained
  /\ \E i, j \in 1..Len(tasks) :
       tasks[i].st = "Success" /\ tasks[j].st = "Failure"
  /\ \E p \in fresh :
       p[3] = ".txt_response.json" /\ <<p[1], p[2], ".txt">> \notin files
  /\ \E p \in fresh : p[3] = ".txt"
====
